---- MODULE Spec2Model ----
(***************************************************************************)
(* Model of the CLI wiki of src/main.py: class Wiki keeps a table of notes *)
(* (id -> {id, title, uname}), a name index (uname -> id) and the next id; *)
(* touch / edit / rm mutate them and save the whole state to a JSON file.  *)
(* Titles are strings; they are modelled as sequences of one-character     *)
(* strings so that the regular expressions and str.replace of the source   *)
(* are computed character by character.                                    *)
(***************************************************************************)
EXTENDS Integers, Sequences, FiniteSets

(***************************************************************************)
(* Bounds of the model.                                                    *)
(***************************************************************************)
\* ids 1..MaxId can be assigned: touch is not taken once _next_id would pass it
MaxId == 5
\* number of commands (touch / edit / rm, failing ones included) in a session
MaxOps == 4
\* number of commands in a session that starts from a file and whose writes
\* can fail
MaxFileOps == 2

(***************************************************************************)
(* Strings.                                                                *)
(***************************************************************************)
LB == <<"[", "[">>
RB == <<"]", "]">>
EmptyStr == <<>>

\* s[i..] starts with p
IsAt(s, i, p) ==
  /\ i >= 1
  /\ i + Len(p) - 1 <= Len(s)
  /\ SubSeq(s, i, i + Len(p) - 1) = p

\* Python's  p in s  for strings
Contains(s, p) == \E i \in 1..(Len(s) - Len(p) + 1) : IsAt(s, i, p)

\* code point order of the characters used, for sorted() on strings
Ord(c) ==
  CASE c = " "  -> 32
    [] c = "["  -> 91
    [] c = "\\" -> 92
    [] c = "]"  -> 93
    [] c = "a"  -> 97
    [] c = "b"  -> 98
    [] OTHER    -> 127

RECURSIVE StrLess(_, _)
\* Python's  s < t  on strings (lexicographic by code point)
StrLess(s, t) ==
  IF Len(t) = 0 THEN FALSE
  ELSE IF Len(s) = 0 THEN TRUE
  ELSE IF Head(s) = Head(t) THEN StrLess(Tail(s), Tail(t))
  ELSE Ord(Head(s)) < Ord(Head(t))

\* re.escape: the characters of re._special_chars_map get a backslash
SpecialChars ==
  {"(", ")", "[", "]", "{", "}", "?", "*", "+", "-", "|", "^", "$", "\\",
   ".", "&", "~", "#", " "}

RECURSIVE re_escape(_)
re_escape(s) ==
  IF Len(s) = 0 THEN <<>>
  ELSE (IF Head(s) \in SpecialChars THEN <<"\\", Head(s)>> ELSE <<Head(s)>>)
       \o re_escape(Tail(s))

\* end of the lazy match of \[\[(.+?)\]\] that starts at i: the index of the
\* first "]]" that leaves at least one character of content, 0 when none
MatchEnd(s, i) ==
  LET ends == {j \in (i + 3)..(Len(s) - 1) : IsAt(s, j, RB)}
  IN  IF ends = {} THEN 0 ELSE CHOOSE j \in ends : \A k \in ends : j <= k

RECURSIVE FindAllFrom(_, _)
FindAllFrom(s, i) ==
  IF i > Len(s) THEN <<>>
  ELSE IF IsAt(s, i, LB) /\ MatchEnd(s, i) # 0
       THEN <<SubSeq(s, i + 2, MatchEnd(s, i) - 1)>>
            \o FindAllFrom(s, MatchEnd(s, i) + 2)
       ELSE FindAllFrom(s, i + 1)

\* re.findall(r'\[\[(.+?)\]\]', title): the contents, left to right
FindAll(title) == FindAllFrom(title, 1)

Range(f) == {f[i] : i \in DOMAIN f}

\* Wiki._is_title_valid
is_title_valid(title) ==
  \A content \in Range(FindAll(title)) :
     ~ (Contains(content, LB) \/ Contains(content, RB))

RECURSIVE SubDelims(_, _)
SubDelims(s, i) ==
  IF i > Len(s) THEN <<>>
  ELSE IF IsAt(s, i, LB) \/ IsAt(s, i, RB) THEN SubDelims(s, i + 2)
  ELSE <<s[i]>> \o SubDelims(s, i + 1)

\* Wiki._parse_uname: re.sub(r'\[\[|\]\]', '', title)
parse_uname(title) == SubDelims(title, 1)

RECURSIVE ReplaceFrom(_, _, _, _)
ReplaceFrom(s, i, old, new) ==
  IF i > Len(s) THEN <<>>
  ELSE IF IsAt(s, i, old) THEN new \o ReplaceFrom(s, i + Len(old), old, new)
  ELSE <<s[i]>> \o ReplaceFrom(s, i + 1, old, new)

\* str.replace(old, new) for a non-empty old: every non-overlapping
\* occurrence, left to right
Replace(s, old, new) == ReplaceFrom(s, 1, old, new)

\* f"[[{uname}]]" of Wiki.edit
LinkText(uname) == LB \o uname \o RB

(***************************************************************************)
(* Inputs: the titles typed at the prompt.                                 *)
(***************************************************************************)
Str_a     == <<"a">>
Str_b     == <<"b">>
Str_a_b   == <<"a", " ", "b">>

Titles ==
  { EmptyStr,                               \* ""                 empty name
    Str_b,                                  \* "b"
    <<"a", " ">> \o LinkText(Str_a),        \* "a [[a]]"
    LinkText(Str_a) \o <<" ", "b">>,        \* "[[a]] b"
    LinkText(Str_a_b) \o Str_a,             \* "[[a b]]a"
    LinkText(Str_a) \o LinkText(Str_b) \o LinkText(Str_a),
                                            \* "[[a]][[b]][[a]]"  repeated marker
    LB \o LinkText(Str_a),                  \* "[[[[a]]"          nested marker
    <<"[", "]", "]", "[">> \o Str_a \o <<"]", "[", "[", "]">> }
                                            \* "[]][a][[]"        stray brackets

\* titles whose markers name notes that have markers themselves, and that
\* name the note they belong to: "[[a]]" is the title of the note named a
Str_ab    == <<"a", "b">>

ChainTitles ==
  { LinkText(Str_a),                        \* "[[a]]"        names itself
    LinkText(Str_b),                        \* "[[b]]"        names itself
    LinkText(Str_a) \o Str_b,               \* "[[a]]b"       named ab
    LinkText(Str_ab) \o Str_a,              \* "[[ab]]a"      names ab
    LinkText(Str_ab) \o LinkText(Str_a) }   \* "[[ab]][[a]]"  names ab and a

\* outcome of the write in _save_data: done, open() raises IOError (the file
\* is left as it was), or the dump raises IOError after open() truncated it
IOOutcomes == {"written", "open_fails", "dump_fails"}

\* a session in which the file stays writable
Writable == {"written"}

(***************************************************************************)
(* State.                                                                  *)
(***************************************************************************)
VARIABLES
  notes,        \* self.notes: id -> [id, title, uname]
  uname_to_id,  \* self.uname_to_id: uname -> id
  next_id,      \* self._next_id
  disk,         \* content of the file at self.filepath
  last,         \* the last command, its arguments and its outcome
  ops           \* number of commands run so far

vars == <<notes, uname_to_id, next_id, disk, last, ops>>

\* the ids typed at the prompt: every id assigned so far, and _next_id as an
\* id that no note has
Ids == 1..next_id

EmptyMap == [x \in {} |-> 0]

\* d[k] = v
Put(d, k, v) == [x \in DOMAIN d \cup {k} |-> IF x = k THEN v ELSE d[x]]

\* if k in d: del d[k]
Del(d, k) == [x \in DOMAIN d \ {k} |-> d[x]]

Note(id, title, uname) == [id |-> id, title |-> title, uname |-> uname]

RECURSIVE SortedIds(_)
\* the ids of S in ascending order
SortedIds(S) ==
  IF S = {} THEN <<>>
  ELSE LET m == CHOOSE x \in S : \A y \in S : x <= y
       IN  <<m>> \o SortedIds(S \ {m})

\* list(self.notes.keys()): a dict iterates in insertion order, and ids are
\* inserted in ascending order
Keys(ns) == SortedIds(DOMAIN ns)

\* the sequences that enumerate the set S once each: the iteration orders of
\* a Python set of strings (the order depends on the per-process string hash)
Orders(S) ==
  {q \in [1..Cardinality(S) -> S] : \A i, j \in DOMAIN q : i # j => q[i] # q[j]}

\* Wiki._calculate_links, for a live note
calculate_links(ns, note_id) ==
  IF note_id \notin DOMAIN ns THEN {}
  ELSE Range(FindAll(ns[note_id].title))

\* Wiki._calculate_backlinks: ids in iteration order of self.notes
calculate_backlinks(ns, target_uname) ==
  LET link_pattern == LB \o re_escape(target_uname) \o RB
  IN  SelectSeq(Keys(ns), LAMBDA id : Contains(ns[id].title, link_pattern))

\* Wiki._save_data: the content of the file after the call
save_data(nid, ns, io) ==
  CASE io = "written"    -> [status |-> "saved", next_id |-> nid, notes |-> ns]
    [] io = "open_fails" -> disk
    [] io = "dump_fails" -> [status |-> "partial", next_id |-> 0, notes |-> EmptyMap]

\* what a command prints: the command, its arguments, the kind of message,
\* (old, touched) the uname the target had and the ids that the command
\* created or rewrote besides the target, and (save) what became of the
\* write of _save_data, which prints an error when it fails ("none" when
\* the command did not call it)
Outcome(op, result, id, title, old, touched, save) ==
  [op |-> op, result |-> result, id |-> id, title |-> title,
   old |-> old, touched |-> touched, save |-> save]

\* nothing to print: the loop is at the prompt
AtPrompt == Outcome("none", "ok", 0, EmptyStr, EmptyStr, <<>>, "none")

Init ==
  /\ notes = EmptyMap
  /\ uname_to_id = EmptyMap
  /\ next_id = 1
  /\ disk = [status |-> "missing", next_id |-> 0, notes |-> EmptyMap]
  /\ last = AtPrompt
  /\ ops = 0

\* the value of a handler that returns an error message before any change
Failed(result, ns, idx, nid) ==
  [result |-> result, notes |-> ns, uname_to_id |-> idx, next_id |-> nid,
   old |-> EmptyStr, touched |-> <<>>, saves |-> FALSE]

\* the value of a handler that changed the wiki and called _save_data
Done(ns, idx, nid, old, touched) ==
  [result |-> "ok", notes |-> ns, uname_to_id |-> idx, next_id |-> nid,
   old |-> old, touched |-> touched, saves |-> TRUE]

(***************************************************************************)
(* touch                                                                   *)
(***************************************************************************)
RECURSIVE Placeholders(_, _, _, _, _)
\* the loop of touch over linked_unames, in the iteration order 'order'
Placeholders(ns, idx, nid, order, created) ==
  IF order = <<>>
  THEN [notes |-> ns, uname_to_id |-> idx, next_id |-> nid, created |-> created]
  ELSE LET placeholder_uname == Head(order)
       IN  IF placeholder_uname \notin DOMAIN idx
           THEN Placeholders(
                  Put(ns, nid, Note(nid, placeholder_uname, placeholder_uname)),
                  Put(idx, placeholder_uname, nid),
                  nid + 1, Tail(order), Append(created, nid))
           ELSE Placeholders(ns, idx, nid, Tail(order), created)

\* the set linked_unames of touch, for the note it has just stored
TouchLinks(title) == Range(FindAll(title))

\* touch as it would be if the id were taken before the duplicate check
touch_takes_id_first(ns, idx, nid, title, order) ==
  LET uname == parse_uname(title)
  IN  IF ~ is_title_valid(title) THEN Failed("InvalidTitle", ns, idx, nid)
      ELSE IF uname = EmptyStr THEN Failed("EmptyName", ns, idx, nid)
      ELSE IF uname \in DOMAIN idx THEN Failed("DuplicateName", ns, idx, nid + 1)
      ELSE
        LET ns1  == Put(ns, nid, Note(nid, title, uname))
            idx1 == Put(idx, uname, nid)
            r    == Placeholders(ns1, idx1, nid + 1, order, <<>>)
        IN  Done(r.notes, r.uname_to_id, r.next_id, EmptyStr, r.created)

\* Wiki.touch on the wiki (ns, idx, nid); 'order' is the order in which the
\* for loop visits the set linked_unames
touch(ns, idx, nid, title, order) ==
  LET uname == parse_uname(title)
  IN  IF ~ is_title_valid(title) THEN Failed("InvalidTitle", ns, idx, nid)
      ELSE IF uname = EmptyStr THEN Failed("EmptyName", ns, idx, nid)
      ELSE IF uname \in DOMAIN idx THEN Failed("DuplicateName", ns, idx, nid)
      ELSE
        LET new_id == nid
            ns1    == Put(ns, new_id, Note(new_id, title, uname))
            idx1   == Put(idx, uname, new_id)
            r      == Placeholders(ns1, idx1, new_id + 1, order, <<>>)
        IN  Done(r.notes, r.uname_to_id, r.next_id, EmptyStr, r.created)

(***************************************************************************)
(* edit and the propagation of the change                                  *)
(***************************************************************************)
\* nodes_to_check.insert(0, an_id) for each an_id of ids not yet processed
RECURSIVE InsertFront(_, _, _)
InsertFront(queue, ids, processed) ==
  IF ids = <<>> THEN queue
  ELSE InsertFront(IF Head(ids) \notin processed THEN <<Head(ids)>> \o queue
                   ELSE queue,
                   Tail(ids), processed)

RECURSIVE PropagateLoop_breaks(_, _, _, _, _, _, _)
\* the loop as it would be with 'break' for 'continue' at line 209: it stops
\* at the first note whose title does not have the old text
PropagateLoop_breaks(ns, idx, nodes_to_check, processed_ids, old_text, new_text, rewritten) ==
  IF nodes_to_check = <<>>
  THEN [notes |-> ns, uname_to_id |-> idx, rewritten |-> rewritten,
        marked |-> <<>>]
  ELSE
    LET current_id == Head(nodes_to_check)
        rest       == Tail(nodes_to_check)
        processed  == processed_ids \cup {current_id}
    IN  IF current_id \in processed_ids
        THEN PropagateLoop_breaks(ns, idx, rest, processed_ids, old_text,
                                  new_text, rewritten)
        ELSE IF current_id \notin DOMAIN ns
        THEN PropagateLoop_breaks(ns, idx, rest, processed, old_text,
                                  new_text, rewritten)
        ELSE IF ~ Contains(ns[current_id].title, old_text)
        THEN [notes |-> ns, uname_to_id |-> idx, rewritten |-> rewritten,
              marked |-> <<>>]
        ELSE
          LET updated_title == Replace(ns[current_id].title, old_text, new_text)
              old_uname_of_linked_note == ns[current_id].uname
              new_uname_of_linked_note == parse_uname(updated_title)
              ns2  == [ns EXCEPT ![current_id] =
                         Note(current_id, updated_title,
                              new_uname_of_linked_note)]
              idx2 == Put(Del(idx, old_uname_of_linked_note),
                          new_uname_of_linked_note, current_id)
              queue2 ==
                IF old_uname_of_linked_note # new_uname_of_linked_note
                THEN InsertFront(rest,
                       calculate_backlinks(ns2, old_uname_of_linked_note),
                       processed)
                ELSE rest
          IN  PropagateLoop_breaks(ns2, idx2, queue2, processed, old_text,
                                   new_text, Append(rewritten, current_id))

RECURSIVE PropagateLoop(_, _, _, _, _, _, _)
\* the while loop of _propagate_change_recursively; 'rewritten' lists the
\* ids whose title was rewritten, in order, and 'marked' the ids in the order
\* of processed_ids.add (line 202)
PropagateLoop(ns, idx, nodes_to_check, processed_ids, old_text, new_text, rewritten) ==
  IF nodes_to_check = <<>>
  THEN [notes |-> ns, uname_to_id |-> idx, rewritten |-> rewritten,
        marked |-> <<>>]
  ELSE
    LET current_id == Head(nodes_to_check)
        rest       == Tail(nodes_to_check)
    IN  IF current_id \in processed_ids
        THEN PropagateLoop(ns, idx, rest, processed_ids, old_text, new_text,
                           rewritten)
        ELSE
          LET processed == processed_ids \cup {current_id}
              r ==
                IF current_id \notin DOMAIN ns
                THEN PropagateLoop(ns, idx, rest, processed, old_text, new_text,
                                   rewritten)
                ELSE IF ~ Contains(ns[current_id].title, old_text)
                THEN PropagateLoop(ns, idx, rest, processed, old_text, new_text,
                                   rewritten)
                ELSE
                  LET original_title == ns[current_id].title
                      updated_title  == Replace(original_title, old_text, new_text)
                      old_uname_of_linked_note == ns[current_id].uname
                      new_uname_of_linked_note == parse_uname(updated_title)
                      ns2  == [ns EXCEPT ![current_id] =
                                 Note(current_id, updated_title,
                                      new_uname_of_linked_note)]
                      idx2 == Put(Del(idx, old_uname_of_linked_note),
                                  new_uname_of_linked_note, current_id)
                      queue2 ==
                        IF old_uname_of_linked_note # new_uname_of_linked_note
                        THEN InsertFront(rest,
                               calculate_backlinks(ns2, old_uname_of_linked_note),
                               processed)
                        ELSE rest
                  IN  PropagateLoop(ns2, idx2, queue2, processed, old_text,
                                    new_text, Append(rewritten, current_id))
          IN  [r EXCEPT !.marked = <<current_id>> \o @]

\* the propagation as it would be without lines 213-220: titles are rewritten,
\* the stored uname and the index are left as they were
propagate_titles_only(ns, idx, edited_note_id, old_text, new_text) ==
  LET hit(id) == id # edited_note_id /\ Contains(ns[id].title, old_text)
  IN  [notes |-> [id \in DOMAIN ns |->
                    IF hit(id)
                    THEN Note(id, Replace(ns[id].title, old_text, new_text),
                              ns[id].uname)
                    ELSE ns[id]],
       uname_to_id |-> idx,
       rewritten |-> SelectSeq(Keys(ns), hit),
       marked |-> Keys(ns)]

\* the propagation as it would be if processed_ids started empty (line 197)
propagate_from_all(ns, idx, edited_note_id, old_text, new_text) ==
  PropagateLoop(ns, idx, Keys(ns), {}, old_text, new_text, <<>>)

\* Wiki._propagate_change_recursively
propagate_change_recursively(ns, idx, edited_note_id, old_text, new_text) ==
  PropagateLoop(ns, idx, Keys(ns), {edited_note_id}, old_text, new_text, <<>>)

\* edit as it would be if it deleted the note and created it again with
\* the new title, as touch does
edit_by_recreate(ns, idx, nid, note_id, new_title) ==
  IF note_id \notin DOMAIN ns THEN Failed("NoteNotFound", ns, idx, nid)
  ELSE
    LET r == touch([id \in DOMAIN ns \ {note_id} |-> ns[id]],
                   Del(idx, ns[note_id].uname), nid, new_title,
                   CHOOSE order \in Orders(TouchLinks(new_title)) : TRUE)
    IN  IF r.result = "ok" THEN r ELSE Failed(r.result, ns, idx, nid)

\* edit as it would be without line 167: the entry of the old uname stays
edit_keeps_old_entry(ns, idx, nid, note_id, new_title) ==
  LET new_uname == parse_uname(new_title)
  IN  IF ~ is_title_valid(new_title) THEN Failed("InvalidTitle", ns, idx, nid)
      ELSE IF note_id \notin DOMAIN ns THEN Failed("NoteNotFound", ns, idx, nid)
      ELSE IF new_uname = EmptyStr THEN Failed("EmptyName", ns, idx, nid)
      ELSE IF new_uname \in DOMAIN idx /\ idx[new_uname] # note_id
      THEN Failed("DuplicateName", ns, idx, nid)
      ELSE
        LET old_uname == ns[note_id].uname
            idx1 == Put(idx, new_uname, note_id)
            ns1  == [ns EXCEPT ![note_id] = Note(note_id, new_title, new_uname)]
            r    == IF old_uname # new_uname
                    THEN propagate_change_recursively(ns1, idx1, note_id,
                           LinkText(old_uname), LinkText(new_uname))
                    ELSE [notes |-> ns1, uname_to_id |-> idx1,
                          rewritten |-> <<>>]
        IN  Done(r.notes, r.uname_to_id, nid, old_uname, r.rewritten)

\* Wiki.edit on the wiki (ns, idx, nid)
edit(ns, idx, nid, note_id, new_title) ==
  LET new_uname == parse_uname(new_title)
  IN  IF ~ is_title_valid(new_title) THEN Failed("InvalidTitle", ns, idx, nid)
      ELSE IF note_id \notin DOMAIN ns THEN Failed("NoteNotFound", ns, idx, nid)
      ELSE IF new_uname = EmptyStr THEN Failed("EmptyName", ns, idx, nid)
      ELSE IF new_uname \in DOMAIN idx /\ idx[new_uname] # note_id
      THEN Failed("DuplicateName", ns, idx, nid)
      ELSE
        LET old_uname == ns[note_id].uname
            idx1 == Put(Del(idx, old_uname), new_uname, note_id)
            ns1  == [ns EXCEPT ![note_id] = Note(note_id, new_title, new_uname)]
            r    == IF old_uname # new_uname
                    THEN propagate_change_recursively(ns1, idx1, note_id,
                           LinkText(old_uname), LinkText(new_uname))
                    ELSE [notes |-> ns1, uname_to_id |-> idx1,
                          rewritten |-> <<>>]
        IN  Done(r.notes, r.uname_to_id, nid, old_uname, r.rewritten)

(***************************************************************************)
(* rm                                                                      *)
(***************************************************************************)
\* rm as it would be if deleting the newest note gave its id back
rm_releases_id(ns, idx, nid, note_id) ==
  IF note_id \notin DOMAIN ns THEN Failed("NoteNotFound", ns, idx, nid)
  ELSE Done([id \in DOMAIN ns \ {note_id} |-> ns[id]],
            Del(idx, ns[note_id].uname),
            IF note_id = nid - 1 THEN nid - 1 ELSE nid,
            ns[note_id].uname, <<>>)

\* rm as it would be without line 187: the index entry stays
rm_keeps_index(ns, idx, nid, note_id) ==
  IF note_id \notin DOMAIN ns THEN Failed("NoteNotFound", ns, idx, nid)
  ELSE Done([id \in DOMAIN ns \ {note_id} |-> ns[id]], idx, nid,
            ns[note_id].uname, <<>>)

\* Wiki.rm on the wiki (ns, idx, nid)
rm(ns, idx, nid, note_id) ==
  IF note_id \notin DOMAIN ns THEN Failed("NoteNotFound", ns, idx, nid)
  ELSE
    LET uname_to_delete == ns[note_id].uname
    IN  Done([id \in DOMAIN ns \ {note_id} |-> ns[id]],
             Del(idx, uname_to_delete), nid, uname_to_delete, <<>>)

(***************************************************************************)
(* The command loop of main(): a command runs its handler to the end, the  *)
(* save included, and leaves the message to print; Report prints it and    *)
(* goes back to the prompt.                                                *)
(***************************************************************************)
\* the dispatch as it would be if the handlers called _save_data before
\* their assignments instead of after them
Apply_saves_first(op, id, title, r, io) ==
  /\ notes' = r.notes
  /\ uname_to_id' = r.uname_to_id
  /\ next_id' = r.next_id
  /\ disk' = IF r.saves THEN save_data(next_id, notes, io) ELSE disk
  /\ last' = Outcome(op, r.result, id, title, r.old, r.touched,
                     IF r.saves THEN io ELSE "none")

\* the handler returned r for the command (op, id, title)
Apply(op, id, title, r, io) ==
  /\ notes' = r.notes
  /\ uname_to_id' = r.uname_to_id
  /\ next_id' = r.next_id
  /\ disk' = IF r.saves THEN save_data(r.next_id, r.notes, io) ELSE disk
  /\ last' = Outcome(op, r.result, id, title, r.old, r.touched,
                     IF r.saves THEN io ELSE "none")

Touch(title, io) ==
  /\ last = AtPrompt
  /\ ops < MaxOps
  /\ ops' = ops + 1
  /\ \E order \in Orders(TouchLinks(title)) :
       LET r == touch(notes, uname_to_id, next_id, title, order)
       IN  /\ r.next_id <= MaxId + 1
           /\ Apply("touch", next_id, title, r, io)

Edit(note_id, new_title, io) ==
  /\ last = AtPrompt
  /\ ops < MaxOps
  /\ ops' = ops + 1
  /\ Apply("edit", note_id, new_title,
           edit(notes, uname_to_id, next_id, note_id, new_title), io)

Rm(note_id, io) ==
  /\ last = AtPrompt
  /\ ops < MaxOps
  /\ ops' = ops + 1
  /\ Apply("rm", note_id, EmptyStr, rm(notes, uname_to_id, next_id, note_id), io)

\* print(...) of the message, then back to session.prompt
Report ==
  /\ last # AtPrompt
  /\ last' = AtPrompt
  /\ UNCHANGED <<notes, uname_to_id, next_id, disk, ops>>

\* The commands of a session whose writes succeed.  Nothing reads the file
\* after construction, so notes, uname_to_id and _next_id do not depend on
\* the outcome of the writes.
Next ==
  \/ \E title \in Titles, io \in Writable : Touch(title, io)
  \/ \E note_id \in Ids, title \in Titles, io \in Writable :
        Edit(note_id, title, io)
  \/ \E note_id \in Ids, io \in Writable : Rm(note_id, io)
  \/ Report

Spec == Init /\ [][Next]_vars

\* The same session with the titles of ChainTitles typed at the prompt.
NextChain ==
  \/ \E title \in ChainTitles, io \in Writable : Touch(title, io)
  \/ \E note_id \in Ids, title \in ChainTitles, io \in Writable :
        Edit(note_id, title, io)
  \/ \E note_id \in Ids, io \in Writable : Rm(note_id, io)
  \/ Report

SpecChain == Init /\ [][NextChain]_vars

(***************************************************************************)
(* A session that starts from whatever the file holds (Wiki.__init__ calls *)
(* _load_data) and whose writes can fail.  The file is described by what   *)
(* json.load makes of it (status) and, where it parses, by the values of   *)
(* its keys '_next_id' and 'notes'.  json.dump writes the id k of a note   *)
(* as the key str(k), and _load_data reads it back with int(), so the      *)
(* notes of a saved file are kept with their integer keys.                 *)
(***************************************************************************)
\* no file at self.filepath
NoFile == [status |-> "missing", next_id |-> 0, notes |-> EmptyMap]

\* the file that  touch "[[a]] b"  saves on an empty wiki
SavedFile ==
  [status |-> "saved", next_id |-> 3,
   notes |-> [id \in {1, 2} |->
                IF id = 1 THEN Note(1, LinkText(Str_a) \o <<" ", "b">>, Str_a_b)
                ELSE Note(2, Str_a, Str_a)]]

\* a file that open() cannot read (IOError)
UnreadableFile == [status |-> "unreadable", next_id |-> 0, notes |-> EmptyMap]

\* text that is not JSON, as a failed dump leaves it
TruncatedFile == [status |-> "partial", next_id |-> 0, notes |-> EmptyMap]

\* JSON whose top level is not an object:  []
NotObjectFile == [status |-> "not_object", next_id |-> 0, notes |-> EmptyMap]

\* {"_next_id": 3, "notes": {"x": {...}}}: a key of notes is not an integer
BadKeyFile == [status |-> "bad_key", next_id |-> 3, notes |-> EmptyMap]

\* {"_next_id": 2, "notes": {"1": {"id": 1, "title": "b"}}}: no 'uname'
NoUnameFile ==
  [status |-> "no_uname", next_id |-> 2,
   notes |-> [id \in {1} |-> [id |-> 1, title |-> Str_b]]]

Files ==
  {NoFile, SavedFile, UnreadableFile, TruncatedFile, NotObjectFile, BadKeyFile,
   NoUnameFile}

\* {note['uname']: note_id for note_id, note in self.notes.items()}: for a
\* uname that several notes have, the last one in iteration order stays
IndexOf(ns) ==
  [u \in {ns[id].uname : id \in DOMAIN ns} |->
     CHOOSE id \in DOMAIN ns :
        /\ ns[id].uname = u
        /\ \A other \in DOMAIN ns : ns[other].uname = u => other <= id]

\* Wiki.__init__ followed by Wiki._load_data on the file: the fields of the
\* wiki when _load_data returns or raises, and how it ended: "ok" (nothing
\* printed), "LoadError" (the except clause printed the error) or
\* "Uncaught" (an exception that the except clause does not name leaves
\* _load_data, __init__ and main, which builds the Wiki outside its try)
load_data(file) ==
  LET Loaded(result, ns, idx, nid) ==
        [result |-> result, notes |-> ns, uname_to_id |-> idx, next_id |-> nid]
  IN  CASE file.status = "missing" ->
             Loaded("ok", EmptyMap, EmptyMap, 1)
        [] file.status = "unreadable" ->
             Loaded("LoadError", EmptyMap, EmptyMap, 1)
        [] file.status = "partial" ->
             Loaded("LoadError", EmptyMap, EmptyMap, 1)
        [] file.status = "not_object" ->          \* data.get: AttributeError
             Loaded("Uncaught", EmptyMap, EmptyMap, 1)
        [] file.status = "bad_key" ->             \* int(k): ValueError
             Loaded("Uncaught", EmptyMap, EmptyMap, file.next_id)
        [] file.status = "no_uname" ->            \* note['uname']: KeyError
             Loaded("Uncaught", file.notes, EmptyMap, file.next_id)
        [] OTHER ->
             Loaded("ok", file.notes, IndexOf(file.notes), file.next_id)

\* main() up to the first prompt, on each of the files
InitFile ==
  \E file \in Files :
     LET r == load_data(file)
     IN  /\ notes = r.notes
         /\ uname_to_id = r.uname_to_id
         /\ next_id = r.next_id
         /\ disk = file
         /\ last = Outcome("load", r.result, 0, EmptyStr, EmptyStr, <<>>, "none")
         /\ ops = 0

\* The commands of a session whose writes can fail; after an uncaught
\* exception of the load there is no session.
NextFile ==
  \/ \E title \in Titles, io \in IOOutcomes :
        ops < MaxFileOps /\ Touch(title, io)
  \/ \E note_id \in Ids, title \in Titles, io \in IOOutcomes :
        ops < MaxFileOps /\ Edit(note_id, title, io)
  \/ \E note_id \in Ids, io \in IOOutcomes :
        ops < MaxFileOps /\ Rm(note_id, io)
  \/ last.result # "Uncaught" /\ Report

SpecFile == InitFile /\ [][NextFile]_vars

(***************************************************************************)
(* Queries.                                                                *)
(***************************************************************************)
RECURSIVE SortedStrs(_)
\* sorted(list(S)) for a set of strings
SortedStrs(S) ==
  IF S = {} THEN <<>>
  ELSE LET m == CHOOSE x \in S : \A y \in S : x = y \/ StrLess(x, y)
       IN  <<m>> \o SortedStrs(S \ {m})

\* Wiki.link: the lines of the answer, one entry per linked uname; the
\* lookup self.notes[linked_id] raises KeyError when the index names an id
\* that is not in the table
link(ns, idx, note_id) ==
  IF note_id \notin DOMAIN ns
  THEN [result |-> "NoteNotFound", entries |-> <<>>]
  ELSE
    LET linked_unames == calculate_links(ns, note_id)
        sorted == SortedStrs(linked_unames)
    IN  IF \E u \in linked_unames : u \in DOMAIN idx /\ idx[u] \notin DOMAIN ns
        THEN [result |-> "KeyError", entries |-> <<>>]
        ELSE [result |-> "ok",
              entries |->
                [i \in 1..Len(sorted) |->
                   IF sorted[i] \in DOMAIN idx
                   THEN [kind |-> "resolved", id |-> idx[sorted[i]],
                         uname |-> sorted[i],
                         title |-> ns[idx[sorted[i]]].title]
                   ELSE [kind |-> "missing", id |-> 0, uname |-> sorted[i],
                         title |-> EmptyStr]]]

\* Wiki.backlink: the ids of the answer, in the order they are listed
backlink(ns, note_id) ==
  IF note_id \notin DOMAIN ns
  THEN [result |-> "NoteNotFound", ids |-> <<>>]
  ELSE [result |-> "ok",
        ids |-> SortedIds(Range(calculate_backlinks(ns, ns[note_id].uname)))]

TypeOK ==
  /\ next_id \in 1..(MaxId + 1)
  /\ DOMAIN notes \subseteq 1..MaxId
  /\ ops \in 0..MaxOps

(***************************************************************************)
(* Properties.                                                             *)
(***************************************************************************)
Live == DOMAIN notes

\* the last command was a successful edit that changed the note's uname
Renamed(l) ==
  /\ l.op = "edit"
  /\ l.result = "ok"
  /\ l.old # parse_uname(l.title)

\* C1: no two distinct live notes have the same canonical name, in every
\* state reachable by touch, edit (with its propagation) and rm from the
\* empty wiki.
C1_UniqueNames ==
  \A m, n \in Live : m # n => notes[m].uname # notes[n].uname

\* C2: the name index agrees with the note table: for every live note n,
\* uname_to_id[n.uname] is defined and equals n.id.
C2_IndexAgrees ==
  \A n \in Live :
     /\ notes[n].uname \in DOMAIN uname_to_id
     /\ uname_to_id[notes[n].uname] = n

\* C3: after a successful rename of note n from oldName to newName, every
\* other live note whose title contained [[oldName]] has every occurrence
\* replaced by [[newName]] and its name recomputed from the new title, every
\* other title is unchanged, and no live note other than n has a title that
\* contains [[oldName]].
C3_RenameRewrites ==
  [][Renamed(last') =>
       LET n       == last'.id
           oldText == LinkText(last'.old)
           newText == LinkText(parse_uname(last'.title))
       IN  \A m \in Live \ {n} :
              /\ m \in DOMAIN notes'
              /\ IF Contains(notes[m].title, oldText)
                 THEN /\ notes'[m].title = Replace(notes[m].title, oldText, newText)
                      /\ notes'[m].uname = parse_uname(notes'[m].title)
                 ELSE notes'[m] = notes[m]
              /\ ~ Contains(notes'[m].title, oldText)]_vars

\* C4: chain A -> B -> C (A's title has the marker of B's name, B's title
\* the marker of C's name): after a successful rename of C, the marker in
\* B's title is replaced, A's title is unchanged, and link(A) still lists
\* A's marker as resolved to B.
C4_ChainStillResolves ==
  [][Renamed(last') =>
       LET c       == last'.id
           oldText == LinkText(last'.old)
           newText == LinkText(parse_uname(last'.title))
       IN  \A a, b \in Live \ {c} :
              ( /\ a # b
                /\ notes[b].uname \in calculate_links(notes, a)
                /\ Contains(notes[b].title, oldText)
                /\ ~ Contains(notes[a].title, oldText) )
              =>
              /\ notes'[b].title = Replace(notes[b].title, oldText, newText)
              /\ notes'[a].title = notes[a].title
              /\ LET r == link(notes', uname_to_id', a)
                 IN  /\ r.result = "ok"
                     /\ \E i \in DOMAIN r.entries :
                           /\ r.entries[i].uname = notes[b].uname
                           /\ r.entries[i].kind = "resolved"
                           /\ r.entries[i].id = b]_vars

\* C5: for every live note n, backlink(n) lists, in ascending id order,
\* exactly the live notes whose title contains [[n.uname]].
C5_BacklinksExact ==
  \A n \in Live :
     LET r == backlink(notes, n)
     IN  /\ r.result = "ok"
         /\ r.ids = SortedIds({m \in Live :
                                 Contains(notes[m].title, LinkText(notes[n].uname))})

\* the sequence q lists its elements in strictly increasing string order
StrictlySorted(q) ==
  \A i, j \in DOMAIN q : i < j => StrLess(q[i], q[j])

\* C6: link(n) on a live note lists the distinct marker contents of its
\* title in sorted order; a content is reported resolved exactly when some
\* live note has it as canonical name (with that note's id and title), and
\* missing exactly when no live note has it.
C6_LinksExact ==
  \A n \in Live :
     LET r == link(notes, uname_to_id, n)
         listed == [i \in DOMAIN r.entries |-> r.entries[i].uname]
     IN  /\ r.result = "ok"
         /\ Range(listed) = Range(FindAll(notes[n].title))
         /\ StrictlySorted(listed)
         /\ \A i \in DOMAIN r.entries :
               LET e == r.entries[i]
                   owners == {m \in Live : notes[m].uname = e.uname}
               IN  /\ e.kind = "resolved" <=> owners # {}
                   /\ e.kind = "missing" <=> owners = {}
                   /\ e.kind = "resolved" =>
                        /\ e.id \in owners
                        /\ e.title = notes[e.id].title

\* the last command was a successful touch / rm
Touched(l) == l.op = "touch" /\ l.result = "ok"
Removed(l) == l.op = "rm" /\ l.result = "ok"

\* every line of link(note_id) names a note that is live and has that uname
AllResolved(ns, idx, note_id) ==
  LET r == link(ns, idx, note_id)
  IN  /\ r.result = "ok"
      /\ \A i \in DOMAIN r.entries :
            /\ r.entries[i].kind = "resolved"
            /\ r.entries[i].id \in DOMAIN ns
            /\ ns[r.entries[i].id].uname = r.entries[i].uname

\* C7: a successful touch adds the requested note plus exactly one
\* placeholder for each distinct marker content of the title that was not
\* the canonical name of a live note (none for the new note's own name);
\* each placeholder has title and name equal to the content, the other
\* notes are unchanged, and every marker of the new note then resolves to a
\* live note.
C7_TouchPlaceholders ==
  [][Touched(last') =>
       LET new_id == last'.id
           title  == last'.title
           unresolved ==
             {c \in Range(FindAll(title)) :
                /\ c # parse_uname(title)
                /\ \A m \in Live : notes[m].uname # c}
           placeholders == DOMAIN notes' \ (Live \cup {new_id})
       IN  /\ new_id \notin Live
           /\ new_id \in DOMAIN notes'
           /\ notes'[new_id] = Note(new_id, title, parse_uname(title))
           /\ \A m \in Live : m \in DOMAIN notes' /\ notes'[m] = notes[m]
           /\ Cardinality(placeholders) = Cardinality(unresolved)
           /\ {notes'[p].title : p \in placeholders} = unresolved
           /\ \A p \in placeholders : notes'[p] = Note(p, notes'[p].title, notes'[p].title)
           /\ AllResolved(notes', uname_to_id', new_id)]_vars

\* a marker opened inside an open marker: "[[" at i, another "[[" at j with
\* no "]]" between them, and a "]]" after it
NestedMarkers(title) ==
  \E i, j, k \in 1..Len(title) :
     /\ IsAt(title, i, LB)
     /\ j >= i + 2
     /\ IsAt(title, j, LB)
     /\ \A e \in (i + 2)..(j - 1) : ~ IsAt(title, e, RB)
     /\ k >= j + 2
     /\ IsAt(title, k, RB)

Failures == {"InvalidTitle", "EmptyName", "DuplicateName", "NoteNotFound"}

\* C8: a command that returns a failure leaves the note table, the name
\* index, the next id and the file exactly as they were; a touch with a
\* title that has nested markers always fails (InvalidTitle).
C8_FailureChangesNothing ==
  [][last' # AtPrompt =>
       /\ last'.result \in Failures =>
            UNCHANGED <<notes, uname_to_id, next_id, disk>>
       /\ (last'.op = "touch" /\ NestedMarkers(last'.title)) =>
            last'.result = "InvalidTitle"
       /\ last'.result \in Failures \cup {"ok"}]_vars

\* a failed command of each kind has been run on a wiki that has notes
C8_Witness ==
  /\ Live # {}
  /\ last.result = "InvalidTitle"
  /\ last.op = "touch"
  /\ NestedMarkers(last.title)

\* C9: rename is idempotent: after a successful edit(id, T), edit(id, T)
\* again succeeds and leaves every note and the name index as they are;
\* likewise edit of a live note with its current title changes nothing.
C9_RenameIdempotent ==
  /\ (last.op = "edit" /\ last.result = "ok") =>
        LET r == edit(notes, uname_to_id, next_id, last.id, last.title)
        IN  /\ r.result = "ok"
            /\ r.notes = notes
            /\ r.uname_to_id = uname_to_id
            /\ r.touched = <<>>
  /\ \A n \in Live :
        LET r == edit(notes, uname_to_id, next_id, n, notes[n].title)
        IN  /\ r.notes = notes
            /\ r.uname_to_id = uname_to_id
            /\ r.touched = <<>>

\* C10: a successful rm removes only that note and the index entry of its
\* name; every other note keeps its title and name, and link() of a note
\* whose title has a marker with the deleted name lists it as missing.
C10_RmFrame ==
  [][Removed(last') =>
       LET gone == last'.id
           name == notes[gone].uname
       IN  /\ DOMAIN notes' = Live \ {gone}
           /\ \A m \in Live \ {gone} : notes'[m] = notes[m]
           /\ uname_to_id' = Del(uname_to_id, name)
           /\ next_id' = next_id
           /\ \A m \in DOMAIN notes' :
                 name \in Range(FindAll(notes'[m].title)) =>
                   LET r == link(notes', uname_to_id', m)
                   IN  /\ r.result = "ok"
                       /\ \E i \in DOMAIN r.entries :
                             /\ r.entries[i].uname = name
                             /\ r.entries[i].kind = "missing"]_vars

\* a note was removed while another note's title has a marker with its name
C10_Witness ==
  /\ Removed(last)
  /\ \E m \in Live : last.old \in Range(FindAll(notes[m].title))

\* C11: every id given to a new note (requested or placeholder) is at least
\* the next-id counter of the state before, which is greater than every id
\* assigned earlier: no id is given twice, a deleted note's id is never given
\* again; the counter never decreases and stays greater than every live id.
C11_IdsMonotonic ==
  [][ /\ next_id' >= next_id
      /\ \A id \in DOMAIN notes' \ Live : id >= next_id
      /\ \A id \in DOMAIN notes' : id < next_id'
      /\ \A id \in DOMAIN notes' : notes'[id].id = id ]_vars

\* a touch created a note and a placeholder after lower ids had been deleted
C11_Witness ==
  /\ Touched(last)
  /\ last.touched # <<>>
  /\ \E id \in 1..(last.id - 1) : id \notin Live

\* C12: in every reachable state the stored uname of every live note is
\* _parse_uname of its stored title: for the notes touch creates, for its
\* placeholders, for the target of an edit and for every note the
\* propagation rewrites.
C12_NameFromTitle ==
  \A n \in Live : notes[n].uname = parse_uname(notes[n].title)

\* a rename has just rewritten other notes, and a rewritten note's title has
\* markers (its uname differs from its title)
C12_Witness ==
  /\ Renamed(last)
  /\ \E i \in DOMAIN last.touched :
        /\ last.touched[i] \in Live
        /\ notes[last.touched[i]].uname # notes[last.touched[i]].title

\* the record that _save_data writes for the wiki (nid, ns)
Persisted(nid, ns) == [status |-> "saved", next_id |-> nid, notes |-> ns]

\* the step leaves the wiki as the handler of command l leaves it
MutationKept(l) ==
  CASE l.op = "touch" ->
         \E order \in Orders(TouchLinks(l.title)) :
            LET r == touch(notes, uname_to_id, next_id, l.title, order)
            IN  <<notes', uname_to_id', next_id'>> =
                  <<r.notes, r.uname_to_id, r.next_id>>
    [] l.op = "edit" ->
         LET r == edit(notes, uname_to_id, next_id, l.id, l.title)
         IN  <<notes', uname_to_id', next_id'>> =
               <<r.notes, r.uname_to_id, r.next_id>>
    [] l.op = "rm" ->
         LET r == rm(notes, uname_to_id, next_id, l.id)
         IN  <<notes', uname_to_id', next_id'>> =
               <<r.notes, r.uname_to_id, r.next_id>>
    [] OTHER -> FALSE

\* C13: every successful touch, edit and rm calls _save_data; when the write
\* succeeds the file holds the next-id counter and the notes of the wiki as
\* they are after the command (placeholders and propagated rewrites
\* included); when it fails the wiki still has the command's effect and the
\* loop goes on to print and prompt.
C13_SavedAfterMutation ==
  [][(last' # AtPrompt /\ last'.result = "ok") =>
       /\ last'.save \in IOOutcomes
       /\ last'.save = "written" => disk' = Persisted(next_id', notes')
       /\ last'.save # "written" => MutationKept(last')
       /\ last'.result # "Uncaught"]_vars

\* an earlier command was saved (the file holds a wiki that is not the one
\* the session started from), then a command that created or rewrote other
\* notes succeeded while its write failed: the wiki has moved on, the file
\* has not
C13_Witness ==
  /\ last.result = "ok"
  /\ last.op \in {"touch", "edit"}
  /\ last.touched # <<>>
  /\ last.save = "open_fails"
  /\ disk.status = "saved"
  /\ disk # SavedFile
  /\ disk # Persisted(next_id, notes)

\* what json.load or _load_data rejects: text that is not JSON, and JSON of
\* the wrong shape
Malformed == {"partial", "not_object", "bad_key", "no_uname"}

\* C14: the load never ends the program: without a file the wiki starts
\* empty, and on a malformed file (not JSON, or JSON with the wrong keys or
\* shape) the error is printed and the wiki starts empty: no notes, an empty
\* index, next id 1.
C14_LoadNeverAborts ==
  last.op = "load" =>
    /\ last.result # "Uncaught"
    /\ disk.status = "missing" =>
         /\ last.result = "ok"
         /\ notes = EmptyMap /\ uname_to_id = EmptyMap /\ next_id = 1
    /\ disk.status \in Malformed =>
         /\ last.result = "LoadError"
         /\ notes = EmptyMap /\ uname_to_id = EmptyMap /\ next_id = 1

\* the sequence q has no element twice
NoDup(q) == \A i, j \in DOMAIN q : i # j => q[i] # q[j]

\* the table and the index as the successful rename l leaves them at line
\* 170 of edit, before the propagation
RenamedTable(l) ==
  [notes EXCEPT ![l.id] = Note(l.id, l.title, parse_uname(l.title))]

RenamedIndex(l) ==
  Put(Del(uname_to_id, l.old), parse_uname(l.title), l.id)

\* the call of _propagate_change_recursively that the successful rename l
\* makes from the current state: lines 172-175 of edit
PropagationOf(l) ==
  propagate_change_recursively(RenamedTable(l), RenamedIndex(l), l.id,
                               LinkText(l.old),
                               LinkText(parse_uname(l.title)))

\* the note n names itself: its title has the marker of its own uname
SelfReference(ns, n) == Contains(ns[n].title, LinkText(ns[n].uname))

\* C15: the propagation of every rename runs to the empty worklist and its
\* result is the state after the rename; in one call no note is marked
\* processed twice, no title is rewritten twice, and the edited note is
\* neither marked nor rewritten, whatever ids the loop puts back at the
\* front of the queue.
C15_PropagationTerminates ==
  [][Renamed(last') =>
       LET r == PropagationOf(last')
       IN  /\ r.notes = notes'
           /\ r.uname_to_id = uname_to_id'
           /\ r.rewritten = last'.touched
           /\ NoDup(r.marked)
           /\ NoDup(r.rewritten)
           /\ Range(r.rewritten) \subseteq Range(r.marked)
           /\ last'.id \notin Range(r.marked)
           /\ Range(r.marked) = Live \ {last'.id}]_vars

\* a note that names itself was renamed; the loop rewrote a note t whose
\* uname changed with its title, and put back at the front of the queue a
\* backlink m of t's old uname, which it rewrote as well
C15_Witness ==
  /\ Renamed(last)
  /\ SelfReference(notes, last.id)
  /\ \E t, m \in Range(last.touched) :
        LET was == Replace(notes[t].title, LinkText(parse_uname(last.title)),
                           LinkText(last.old))
        IN  /\ m # t
            /\ parse_uname(was) # notes[t].uname
            /\ Contains(notes[m].title, LinkText(parse_uname(was)))

\* the last command was a successful edit that kept the note's uname
Retitled(l) ==
  /\ l.op = "edit"
  /\ l.result = "ok"
  /\ l.old = parse_uname(l.title)

\* C16: a successful edit whose new title has the uname the note already
\* has runs no propagation: every other note keeps its title and uname, the
\* name index is unchanged, and of the target only the title may change.
C16_SameNameFrame ==
  [][Retitled(last') =>
       /\ DOMAIN notes' = Live
       /\ \A m \in Live \ {last'.id} : notes'[m] = notes[m]
       /\ notes'[last'.id].uname = notes[last'.id].uname
       /\ last'.touched = <<>>
       /\ uname_to_id' = uname_to_id]_vars

\* one pass over the table: in every note but the edited one, every
\* occurrence of old_text becomes new_text and the uname is recomputed
SinglePass(ns, edited_note_id, old_text, new_text) ==
  [m \in DOMAIN ns |->
     IF m # edited_note_id /\ Contains(ns[m].title, old_text)
     THEN Note(m, Replace(ns[m].title, old_text, new_text),
               parse_uname(Replace(ns[m].title, old_text, new_text)))
     ELSE ns[m]]

\* the ids of the notes whose title has old_text
TrueBacklinks(ns, old_text) ==
  SelectSeq(Keys(ns), LAMBDA id : Contains(ns[id].title, old_text))

\* the sequence q backwards
Reverse(q) == [i \in 1..Len(q) |-> q[Len(q) + 1 - i]]

\* worklists to start the loop from: all ids in the order of the code and
\* backwards, and only the true backlinks, in both orders
Worklists(ns, old_text) ==
  {Keys(ns), Reverse(Keys(ns)), TrueBacklinks(ns, old_text),
   Reverse(TrueBacklinks(ns, old_text))}

\* C17: after a rename the titles and unames of all notes are those of a
\* single pass that replaces the old marker by the new one in every live
\* note but the edited one and recomputes its uname; the loop gives the same
\* table from the worklist in another order and from a worklist of the true
\* backlinks only.
C17_SinglePass ==
  [][Renamed(last') =>
       LET ns1      == RenamedTable(last')
           idx1     == RenamedIndex(last')
           old_text == LinkText(last'.old)
           new_text == LinkText(parse_uname(last'.title))
       IN  /\ PropagationOf(last').notes = notes'
           /\ notes' = SinglePass(ns1, last'.id, old_text, new_text)
           /\ \A q \in Worklists(ns1, old_text) :
                 PropagateLoop(ns1, idx1, q, {last'.id}, old_text, new_text,
                               <<>>).notes = notes']_vars

\* a rename rewrote two notes, the uname of one of them changed, and it
\* left alone a third note that has markers but not the old one
C17_Witness ==
  /\ Renamed(last)
  /\ Len(last.touched) >= 2
  /\ \E t \in Range(last.touched) :
        parse_uname(Replace(notes[t].title, LinkText(parse_uname(last.title)),
                            LinkText(last.old))) # notes[t].uname
  /\ \E m \in Live \ (Range(last.touched) \cup {last.id}) :
        FindAll(notes[m].title) # <<>>

\* C18: the name index has no stale entry: every key of uname_to_id maps to
\* a live note whose uname is that key, after any touch, edit (with its
\* propagation) and rm.
C18_NoStaleEntry ==
  \A u \in DOMAIN uname_to_id :
     /\ uname_to_id[u] \in Live
     /\ notes[uname_to_id[u]].uname = u

\* the index is not empty after a rename that rewrote other notes, in a
\* wiki where a live note has no entry of its own
C18_Witness ==
  /\ Renamed(last)
  /\ last.touched # <<>>
  /\ uname_to_id # EmptyMap
  /\ ~ C2_IndexAgrees

\* the last command was an edit, whatever its outcome
Edited(l) == l.op = "edit"

\* C19: an edit never creates or removes a note: after any edit, successful
\* or failed, with or without propagation, the set of live ids and the next
\* id are as before, also when the new title has markers that name no note
\* (link then reports them as missing).
C19_EditKeepsIds ==
  [][Edited(last') =>
       /\ DOMAIN notes' = Live
       /\ next_id' = next_id
       /\ \A m \in DOMAIN notes' : notes'[m].id = m
       /\ last'.result = "ok" =>
             LET r == link(notes', uname_to_id', last'.id)
             IN  /\ r.result = "ok"
                 /\ \A i \in DOMAIN r.entries :
                       (\A m \in Live : notes'[m].uname # r.entries[i].uname)
                         => r.entries[i].kind = "missing"]_vars

\* a successful edit gave a note a title with a marker that names no note
C19_Witness ==
  /\ Edited(last)
  /\ last.result = "ok"
  /\ \E c \in Range(FindAll(last.title)) :
        /\ \A m \in Live : notes[m].uname # c
        /\ c \notin DOMAIN uname_to_id

RECURSIVE IsSubsequence(_, _)
\* u is t with some characters left out
IsSubsequence(u, t) ==
  IF u = <<>> THEN TRUE
  ELSE IF t = <<>> THEN FALSE
  ELSE IF Head(u) = Head(t) THEN IsSubsequence(Tail(u), Tail(t))
  ELSE IsSubsequence(u, Tail(t))

\* C20: the uname that a successful touch or edit stores for an accepted
\* title is the title without its delimiters, the other characters kept in
\* order, so it has no "[[" and no "]]" in it.
C20_NameHasNoDelimiter ==
  (last.op \in {"touch", "edit"} /\ last.result = "ok") =>
     LET name == notes[last.id].uname
     IN  /\ is_title_valid(last.title)
         /\ name = parse_uname(last.title)
         /\ IsSubsequence(name, last.title)
         /\ ~ Contains(name, LB)
         /\ ~ Contains(name, RB)

====
